---- MODULE Spec2Model ----
(***************************************************************************)
(* Model of the prerender builder (execute, _scheduleBuilds,               *)
(* _renderUniversal, _parallelRenderRoutes).  One run of execute is        *)
(* modelled: the orchestrator is a single cooperative task that suspends   *)
(* at each await; the two builds, the two stop calls and the render        *)
(* worker processes are the environment and settle independently.          *)
(*                                                                         *)
(* An optional JavaScript value is a sequence of length at most one:       *)
(* << >> is undefined, <<v>> is the value v.  A path is a sequence of      *)
(* segments.                                                               *)
(***************************************************************************)
EXTENDS Integers, Sequences, FiniteSets, TLC

\* ---- bounds of the model ----
MaxRoutes == 2
MaxCpus == 3
MaxOverride == 2
MaxPaths == 2
MaxGroupLen == 10

\* ---- values ----
RouteNames == {"/a", "/b"}
Locales == <<"en", "fr", "de", "es">>
BrowserBase == <<"dist", "browser">>
ServerBase == <<"dist", "server">>
BrowserBuildError == "browser build failed"
ServerBuildError == "server build failed"
BrowserRejectMessage == "browser build threw"
ServerRejectMessage == "server build threw"
ScheduleRejectMessage == "scheduleTarget rejected"
BrowserStopMessage == "browser stop rejected"
ServerStopMessage == "server stop rejected"
WorkerErrorMessage == "worker error event"

Undefined == << >>
Some(v) == <<v>>
IsDefined(o) == Len(o) > 0
ValueOf(o) == o[1]

\* Math.min(a, b)
MathMin(a, b) == IF a <= b THEN a ELSE b

\* JavaScript truthiness of an optional number / optional string
TruthyNum(o) == IsDefined(o) /\ ValueOf(o) # 0
TruthyStr(o) == IsDefined(o) /\ ValueOf(o) # ""

\* ---- path helpers (path.join / path.relative on segment lists) ----
RECURSIVE CommonPrefixLen(_, _)
CommonPrefixLen(a, b) ==
  IF Len(a) = 0 \/ Len(b) = 0 \/ Head(a) # Head(b) THEN 0
  ELSE 1 + CommonPrefixLen(Tail(a), Tail(b))

RECURSIVE Normalize(_, _)
Normalize(done, rest) ==
  IF Len(rest) = 0 THEN done
  ELSE IF Head(rest) = ".." /\ Len(done) > 0 /\ done[Len(done)] # ".."
       THEN Normalize(SubSeq(done, 1, Len(done) - 1), Tail(rest))
       ELSE Normalize(Append(done, Head(rest)), Tail(rest))

PathJoin(a, b) == Normalize(<< >>, a \o b)

PathRelative(from, to) ==
  LET c == CommonPrefixLen(from, to)
  IN  [i \in 1..(Len(from) - c) |-> ".."] \o SubSeq(to, c + 1, Len(to))

\* the server bundle resolved for one browser output path
ServerBundlePath(browserResult, serverResult, outputPath) ==
  LET baseOutputPath == IF IsDefined(serverResult.baseOutputPath)
                        THEN ValueOf(serverResult.baseOutputPath) ELSE << >>
      localeDirectory == PathRelative(ValueOf(browserResult.baseOutputPath), outputPath)
  IN  PathJoin(PathJoin(baseOutputPath, localeDirectory), <<"main.js">>)

\* ---- the route partition ----
RECURSIVE GroupFrom(_, _, _)
GroupFrom(array, numGroups, k) ==
  IF k > numGroups THEN << >>
  ELSE LET remaining == numGroups - k + 1
           size == (Len(array) + remaining - 1) \div remaining
       IN  <<SubSeq(array, 1, size)>>
             \o GroupFrom(SubSeq(array, size + 1, Len(array)), numGroups, k + 1)

groupArrayChunked(array, numGroups) ==
  LET size == (Len(array) + numGroups - 1) \div (IF numGroups = 0 THEN 1 ELSE numGroups)
  IN  [i \in 1..numGroups |->
         SubSeq(array, (i - 1) * size + 1, MathMin(i * size, Len(array)))]

groupArray(array, numGroups) == GroupFrom(array, numGroups, 1)

\* ---- state ----
VARIABLES
  routes,          \* the route list returned by getRoutes
  optNumProcesses, \* options.numProcesses (optional)
  execPc,          \* where execute is suspended
  execOutcome,     \* how execute completed
  browserRun,      \* the browser target run: scheduling, result, stop
  serverRun,       \* the server target run
  buildsAll,       \* Promise.all over the two build results
  stopsAll,        \* Promise.all over the two stop calls
  schedResult,     \* what _scheduleBuilds returns once the stops are awaited
  cpus,            \* os.cpus().length as read by execute (0: not read)
  numProcesses,    \* the effective worker count (optional: undefined until computed)
  pathIdx,         \* index into browserResult.outputPaths of the current iteration
  workers,         \* every forked render worker, in fork order
  logged           \* the kinds of line the 'message' handlers wrote to context.logger

vars == <<routes, optNumProcesses, execPc, execOutcome, browserRun, serverRun,
          buildsAll, stopsAll, schedResult, cpus, numProcesses, pathIdx, workers,
          logged>>

RECURSIVE SeqsUpTo(_, _)
SeqsUpTo(S, n) ==
  IF n = 0 THEN {<< >>}
  ELSE LET shorter == SeqsUpTo(S, n - 1)
       IN  shorter \cup {Append(q, x) : q \in {r \in shorter : Len(r) = n - 1}, x \in S}

\* the code never looks into a route, so the first route is named "/a"
RouteLists == {r \in SeqsUpTo(RouteNames, MaxRoutes) : Len(r) = 0 \/ r[1] = "/a"}
NumProcessesOptions == {Undefined} \cup {Some(n) : n \in 0..MaxOverride}

\* outputPaths a browser build may report: the base itself, or one directory per locale
OutputPathLists ==
  {<<BrowserBase>>} \cup {[i \in 1..k |-> Append(BrowserBase, Locales[i])] : k \in 0..MaxPaths}

\* outputPath: the first of outputPaths (<< >> when there is none). The error is
\* read only to build a failure result (line 100): the empty string, a falsy error,
\* is enumerated for the builds that failed.
BrowserResults ==
  {r \in {[success |-> s, error |-> e, baseOutputPath |-> b, outputPaths |-> ps,
           outputPath |-> IF Len(ps) = 0 THEN << >> ELSE ps[1]] :
            s \in BOOLEAN, e \in {Undefined, Some(""), Some(BrowserBuildError)},
            b \in {Undefined, Some(BrowserBase)}, ps \in OutputPathLists} :
     r.success => r.error # Some("")}

ServerResults ==
  [success : BOOLEAN,
   error : {Undefined, Some(ServerBuildError)},
   baseOutputPath : {Undefined, Some(ServerBase)}]

Pending == [st |-> "pending"]
Fulfilled(v) == [st |-> "fulfilled", val |-> v]
Rejected(m) == [st |-> "rejected", msg |-> m]

IdleRun == [sched |-> "idle", result |-> Pending, stopCalls |-> 0, stop |-> [st |-> "none"]]

NotCompleted == [kind |-> "pending"]
Returned(v) == [kind |-> "returned", value |-> v]
Threw(m) == [kind |-> "threw", message |-> m, detail |-> << >>]
ThrewAbout(m, d) == [kind |-> "threw", message |-> m, detail |-> d]

Init ==
  /\ routes \in RouteLists
  /\ optNumProcesses \in NumProcessesOptions
  /\ execPc = "start"
  /\ execOutcome = NotCompleted
  /\ browserRun = IdleRun
  /\ serverRun = IdleRun
  /\ buildsAll = [st |-> "none"]
  /\ stopsAll = [st |-> "none"]
  /\ schedResult = Undefined
  /\ cpus = 0
  /\ numProcesses = Undefined
  /\ pathIdx = 0
  /\ workers = << >>
  /\ logged = {}

PromiseAllFirstOnly(first, second) ==
  IF first.st = "rejected" THEN Rejected(first.msg)
  ELSE IF second.st = "rejected" THEN Rejected(second.msg)
  ELSE IF first.st = "fulfilled"
       THEN Fulfilled(<<first.val,
                        IF second.st = "fulfilled" THEN second.val
                        ELSE [success |-> TRUE, error |-> Undefined,
                              baseOutputPath |-> Some(ServerBase)]>>)
       ELSE Pending

\* Promise.all over two promises, as seen when it is created
PromiseAll(first, second) ==
  IF first.st = "rejected" THEN Rejected(first.msg)
  ELSE IF second.st = "rejected" THEN Rejected(second.msg)
  ELSE IF first.st = "fulfilled" /\ second.st = "fulfilled"
       THEN Fulfilled(<<first.val, second.val>>)
       ELSE Pending

\* Promise.all after one of its inputs settles: the first rejection wins
PromiseAllAfter(all, first, second, settled) ==
  IF all.st # "pending" THEN all
  ELSE IF settled.st = "rejected" THEN Rejected(settled.msg)
  ELSE PromiseAll(first, second)

NoRoutesNeverEmpty(routeList) == FALSE

\* execute, line 196: the route list is empty
NoRoutes(routeList) == Len(routeList) = 0

\* execute, lines 195-199: resolve the routes, reject an empty list, else call
\* _scheduleBuilds, which runs up to its first await (scheduleTarget of the browser)
Start ==
  /\ execPc = "start"
  /\ IF NoRoutes(routes)
     THEN /\ execPc' = "done"
          /\ execOutcome' = Threw("No routes found.")
          /\ UNCHANGED browserRun
     ELSE /\ execPc' = "awaitScheduleBrowser"
          /\ browserRun' = [browserRun EXCEPT !.sched = "requested"]
          /\ UNCHANGED execOutcome
  /\ UNCHANGED <<logged, routes, optNumProcesses, serverRun, buildsAll, stopsAll, schedResult,
                 cpus, numProcesses, pathIdx, workers>>

\* _scheduleBuilds, lines 83-88: the browser scheduleTarget settles; on success the
\* server target is scheduled next, on rejection the exception leaves _scheduleBuilds
\* (the await is outside the try block) and execute
BrowserScheduled ==
  /\ execPc = "awaitScheduleBrowser"
  /\ \E ok \in BOOLEAN :
       IF ok
       THEN /\ browserRun' = [browserRun EXCEPT !.sched = "running"]
            /\ serverRun' = [serverRun EXCEPT !.sched = "requested"]
            /\ execPc' = "awaitScheduleServer"
            /\ UNCHANGED execOutcome
       ELSE /\ browserRun' = [browserRun EXCEPT !.sched = "failed"]
            /\ execPc' = "done"
            /\ execOutcome' = Threw(ScheduleRejectMessage)
            /\ UNCHANGED serverRun
  /\ UNCHANGED <<logged, routes, optNumProcesses, buildsAll, stopsAll, schedResult,
                 cpus, numProcesses, pathIdx, workers>>

\* _scheduleBuilds, lines 88-96: the server scheduleTarget settles; on success the
\* try block is entered and Promise.all over the two results is awaited
ServerScheduled ==
  /\ execPc = "awaitScheduleServer"
  /\ \E ok \in BOOLEAN :
       IF ok
       THEN /\ serverRun' = [serverRun EXCEPT !.sched = "running"]
            /\ buildsAll' = PromiseAll(browserRun.result, Pending)
            /\ execPc' = "awaitBuilds"
            /\ UNCHANGED execOutcome
       ELSE /\ serverRun' = [serverRun EXCEPT !.sched = "failed"]
            /\ execPc' = "done"
            /\ execOutcome' = Threw(ScheduleRejectMessage)
            /\ UNCHANGED buildsAll
  /\ UNCHANGED <<logged, routes, optNumProcesses, browserRun, stopsAll, schedResult,
                 cpus, numProcesses, pathIdx, workers>>

\* the browser build finishes: browserTargetRun.result fulfils or rejects
BrowserBuildSettles ==
  /\ browserRun.sched = "running"
  /\ browserRun.result.st = "pending"
  /\ \E r \in {Fulfilled(v) : v \in BrowserResults} \cup {Rejected(BrowserRejectMessage)} :
       /\ browserRun' = [browserRun EXCEPT !.result = r]
       /\ buildsAll' = PromiseAllAfter(buildsAll, r, serverRun.result, r)
  /\ UNCHANGED <<logged, routes, optNumProcesses, execPc, execOutcome, serverRun, stopsAll,
                 schedResult, cpus, numProcesses, pathIdx, workers>>

\* the server build finishes: serverTargetRun.result fulfils or rejects
ServerBuildSettles ==
  /\ serverRun.sched = "running"
  /\ serverRun.result.st = "pending"
  /\ \E r \in {Fulfilled(v) : v \in ServerResults} \cup {Rejected(ServerRejectMessage)} :
       /\ serverRun' = [serverRun EXCEPT !.result = r]
       /\ buildsAll' = PromiseAllAfter(buildsAll, browserRun.result, r, r)
  /\ UNCHANGED <<logged, routes, optNumProcesses, execPc, execOutcome, browserRun, stopsAll,
                 schedResult, cpus, numProcesses, pathIdx, workers>>

ScheduleBuildsResultServerErrorFirst(browserResult, serverResult) ==
  [success |-> browserResult.success /\ serverResult.success
                 /\ IsDefined(browserResult.baseOutputPath),
   error |-> IF TruthyStr(serverResult.error) THEN serverResult.error
             ELSE browserResult.error,
   browserResult |-> Some(browserResult),
   serverResult |-> Some(serverResult)]

ScheduleBuildsResultIgnoringBasePath(browserResult, serverResult) ==
  [success |-> browserResult.success /\ serverResult.success,
   error |-> IF TruthyStr(browserResult.error) THEN browserResult.error
             ELSE serverResult.error,
   browserResult |-> Some(browserResult),
   serverResult |-> Some(serverResult)]

\* _scheduleBuilds, lines 98-102: the result computed from the two build results
ScheduleBuildsResult(browserResult, serverResult) ==
  [success |-> browserResult.success /\ serverResult.success
                 /\ IsDefined(browserResult.baseOutputPath),
   error |-> IF TruthyStr(browserResult.error) THEN browserResult.error
             ELSE serverResult.error,
   browserResult |-> Some(browserResult),
   serverResult |-> Some(serverResult)]

\* _scheduleBuilds, lines 103-104: the result of the catch block
ScheduleBuildsCaught(message) ==
  [success |-> FALSE, error |-> Some(message),
   browserResult |-> Undefined, serverResult |-> Undefined]

\* _scheduleBuilds, lines 93-106: Promise.all over the results has settled; the
\* result is computed (try) or the exception converted (catch), then the finally
\* block calls stop() on both runs and awaits the two stop promises
BuildsAwaited ==
  /\ execPc = "awaitBuilds"
  /\ buildsAll.st \in {"fulfilled", "rejected"}
  /\ schedResult' = IF buildsAll.st = "fulfilled"
                    THEN Some(ScheduleBuildsResult(buildsAll.val[1], buildsAll.val[2]))
                    ELSE Some(ScheduleBuildsCaught(buildsAll.msg))
  /\ browserRun' = [browserRun EXCEPT !.stopCalls = @ + 1, !.stop = Pending]
  /\ serverRun' = [serverRun EXCEPT !.stopCalls = @ + 1, !.stop = Pending]
  /\ stopsAll' = Pending
  /\ execPc' = "awaitStops"
  /\ UNCHANGED <<logged, routes, optNumProcesses, execOutcome, buildsAll,
                 cpus, numProcesses, pathIdx, workers>>

\* browserTargetRun.stop() settles
BrowserStopSettles ==
  /\ browserRun.stop.st = "pending"
  /\ \E r \in {Fulfilled("stopped"), Rejected(BrowserStopMessage)} :
       /\ browserRun' = [browserRun EXCEPT !.stop = r]
       /\ stopsAll' = PromiseAllAfter(stopsAll, r, serverRun.stop, r)
  /\ UNCHANGED <<logged, routes, optNumProcesses, execPc, execOutcome, serverRun, buildsAll,
                 schedResult, cpus, numProcesses, pathIdx, workers>>

\* serverTargetRun.stop() settles
ServerStopSettles ==
  /\ serverRun.stop.st = "pending"
  /\ \E r \in {Fulfilled("stopped"), Rejected(ServerStopMessage)} :
       /\ serverRun' = [serverRun EXCEPT !.stop = r]
       /\ stopsAll' = PromiseAllAfter(stopsAll, browserRun.stop, r, r)
  /\ UNCHANGED <<logged, routes, optNumProcesses, execPc, execOutcome, browserRun, buildsAll,
                 schedResult, cpus, numProcesses, pathIdx, workers>>

EffectiveNumProcessesUncapped(option, cpuCount, routeCount) ==
  IF TruthyNum(option) THEN ValueOf(option) ELSE cpuCount - 1

\* execute, lines 207-210: the effective worker count
EffectiveNumProcesses(option, cpuCount, routeCount) ==
  MathMin(IF TruthyNum(option) THEN ValueOf(option) ELSE cpuCount - 1, routeCount)

ParallelRenderRoutesOneTooMany(groupedRoutes, outputPath, serverBundlePath, bundleOnDisk) ==
  [i \in 1..(Len(groupedRoutes) + 1) |->
     [outputPath |-> outputPath,
      serverBundlePath |-> serverBundlePath,
      bundleOnDisk |-> bundleOnDisk,
      routes |-> IF i <= Len(groupedRoutes) THEN groupedRoutes[i] ELSE << >>,
      proc |-> "running",
      errorEmitted |-> FALSE,
      promise |-> "pending"]]

\* _parallelRenderRoutes, lines 118-143: one forked child per group, each with a
\* promise that 'exit' resolves and 'error' rejects
ParallelRenderRoutes(groupedRoutes, outputPath, serverBundlePath, bundleOnDisk) ==
  [i \in 1..Len(groupedRoutes) |->
     [outputPath |-> outputPath,
      serverBundlePath |-> serverBundlePath,
      bundleOnDisk |-> bundleOnDisk,
      routes |-> groupedRoutes[i],
      proc |-> "running",
      errorEmitted |-> FALSE,
      promise |-> "pending"]]

RenderUniversalResultWithoutPaths(browserResult) ==
  [browserResult EXCEPT !.outputPaths = << >>]

\* _renderUniversal, line 183: return browserResult
RenderUniversalResult(browserResult) == browserResult

MainBundleMissingIgnored(bundleExists) == FALSE

\* _renderUniversal, line 165: !fs.existsSync(serverBundlePath)
MainBundleMissing(bundleExists) == ~bundleExists

\* _renderUniversal, lines 158-183: the loop from iteration k up to its next await
RenderFrom(k, browserResult, serverResult, workerCount) ==
  IF k > Len(browserResult.outputPaths)
  THEN /\ execPc' = "done"
       /\ execOutcome' = Returned(RenderUniversalResult(browserResult))
       /\ pathIdx' = k
       /\ UNCHANGED workers
  ELSE LET outputPath == browserResult.outputPaths[k]
           serverBundlePath == ServerBundlePath(browserResult, serverResult, outputPath)
       IN  \E indexReadable, bundleExists \in BOOLEAN :
             /\ pathIdx' = k
             /\ IF ~indexReadable
                THEN /\ execPc' = "done"
                     /\ execOutcome' = ThrewAbout("ENOENT", Append(outputPath, "index.html"))
                     /\ UNCHANGED workers
                ELSE IF ~IsDefined(browserResult.baseOutputPath)
                THEN /\ execPc' = "done"
                     /\ execOutcome' = Threw("TypeError: path.relative")
                     /\ UNCHANGED workers
                ELSE IF MainBundleMissing(bundleExists)
                THEN /\ execPc' = "done"
                     /\ execOutcome' = ThrewAbout("Could not find the main bundle",
                                                  serverBundlePath)
                     /\ UNCHANGED workers
                ELSE /\ execPc' = "awaitWorkers"
                     /\ workers' = workers \o ParallelRenderRoutes(
                                      groupArray(routes, workerCount),
                                      outputPath, serverBundlePath, bundleExists)
                     /\ UNCHANGED execOutcome

\* execute, line 208: os.cpus() is read only when options.numProcesses is falsy
\* (0 stands for: not read)
CpuCountsRead(option) == IF TruthyNum(option) THEN {0} ELSE 1..MaxCpus

ScheduleFailedIgnoringSuccess(result) ==
  ~IsDefined(result.browserResult) \/ ~IsDefined(result.serverResult)

\* execute, line 201: the scheduler's result does not allow rendering
ScheduleFailed(result) ==
  ~result.success \/ ~IsDefined(result.browserResult) \/ ~IsDefined(result.serverResult)

StopsRejectedSwallowed(all) == FALSE

\* _scheduleBuilds, lines 105-107: the await in the finally block throws when the
\* stops' Promise.all is rejected
StopsRejected(all) == all.st = "rejected"

\* _scheduleBuilds line 106 to execute lines 199-212: the stop promises have
\* settled.  A rejected stop leaves the finally block as an exception; otherwise
\* _scheduleBuilds returns, execute returns a failure or computes the worker count
\* and enters _renderUniversal
StopsAwaited ==
  /\ execPc = "awaitStops"
  /\ stopsAll.st \in {"fulfilled", "rejected"}
  /\ IF StopsRejected(stopsAll)
     THEN /\ execPc' = "done"
          /\ execOutcome' = Threw(stopsAll.msg)
          /\ UNCHANGED <<cpus, numProcesses, pathIdx, workers>>
     ELSE LET result == ValueOf(schedResult)
          IN  IF ScheduleFailed(result)
              THEN /\ execPc' = "done"
                   /\ execOutcome' = Returned([success |-> result.success,
                                               error |-> result.error])
                   /\ UNCHANGED <<cpus, numProcesses, pathIdx, workers>>
              ELSE \E c \in CpuCountsRead(optNumProcesses) :
                     /\ cpus' = c
                     /\ numProcesses' = Some(EffectiveNumProcesses(optNumProcesses, c,
                                                                   Len(routes)))
                     /\ RenderFrom(1, ValueOf(result.browserResult),
                                   ValueOf(result.serverResult),
                                   EffectiveNumProcesses(optNumProcesses, c, Len(routes)))
  /\ UNCHANGED <<logged, routes, optNumProcesses, browserRun, serverRun, buildsAll, stopsAll,
                 schedResult>>

\* a render worker process exits: its 'exit' handler resolves its promise
WorkerExits(i) ==
  /\ workers[i].proc = "running"
  /\ workers' = [workers EXCEPT ![i].proc = "exited",
                                ![i].promise = IF @ = "pending" THEN "resolved" ELSE @]
  /\ UNCHANGED <<logged, routes, optNumProcesses, execPc, execOutcome, browserRun, serverRun,
                 buildsAll, stopsAll, schedResult, cpus, numProcesses, pathIdx>>

WorkerErrorsResolving(i) ==
  /\ workers[i].proc = "running"
  /\ workers[i].promise = "pending"
  /\ workers' = [workers EXCEPT ![i].promise = "resolved", ![i].errorEmitted = TRUE]
  /\ UNCHANGED <<logged, routes, optNumProcesses, execPc, execOutcome, browserRun, serverRun,
                 buildsAll, stopsAll, schedResult, cpus, numProcesses, pathIdx>>

\* a render worker emits 'error': its promise is rejected; the process is not killed
WorkerErrors(i) ==
  /\ workers[i].proc = "running"
  /\ workers[i].promise = "pending"
  /\ workers' = [workers EXCEPT ![i].promise = "rejected", ![i].errorEmitted = TRUE]
  /\ UNCHANGED <<logged, routes, optNumProcesses, execPc, execOutcome, browserRun, serverRun,
                 buildsAll, stopsAll, schedResult, cpus, numProcesses, pathIdx>>

\* the lines logged for one WorkerReport
InfoLines == {"CREATE"}
ErrorLines == {"Error", "Unable to render"}

WorkerReportsRejectingFailure(i) ==
  /\ workers[i].proc = "running"
  /\ \E success \in BOOLEAN :
       IF success
       THEN /\ logged' = logged \cup InfoLines
            /\ UNCHANGED workers
       ELSE /\ logged' = logged \cup ErrorLines
            /\ workers' = [workers EXCEPT ![i].promise =
                                             IF @ = "pending" THEN "rejected" ELSE @]
  /\ UNCHANGED <<routes, optNumProcesses, execPc, execOutcome, browserRun, serverRun,
                 buildsAll, stopsAll, schedResult, cpus, numProcesses, pathIdx>>

\* _parallelRenderRoutes, lines 129-136: a render worker sends a WorkerReport; the
\* 'message' handler logs one info line on success, two error lines on failure
\* (logged keeps the kinds of line written, not their number)
WorkerReports(i) ==
  /\ workers[i].proc = "running"
  /\ \E success \in BOOLEAN :
       logged' = IF success THEN logged \cup InfoLines ELSE logged \cup ErrorLines
  /\ UNCHANGED <<routes, optNumProcesses, execPc, execOutcome, browserRun, serverRun,
                 buildsAll, stopsAll, schedResult, cpus, numProcesses, pathIdx, workers>>

\* the workers forked for the output path of iteration k
WorkersOf(k) ==
  LET result == ValueOf(ValueOf(schedResult).browserResult)
  IN  {i \in 1..Len(workers) : workers[i].outputPath = result.outputPaths[k]}

BatchFulfilledByAny(batch) ==
  batch = {} \/ \E i \in batch : workers[i].promise = "resolved"

\* _renderUniversal, line 172: Promise.all over a batch fulfils once every worker
\* promise of the batch is resolved
BatchFulfilled(batch) == \A i \in batch : workers[i].promise = "resolved"

WorkersAwaitedOrTimedOut ==
  /\ execPc = "awaitWorkers"
  /\ LET batch == WorkersOf(pathIdx)
         result == ValueOf(schedResult)
     IN  \/ /\ execPc' = "done"
            /\ execOutcome' = Threw(IF \E i \in batch : workers[i].promise = "rejected"
                                    THEN WorkerErrorMessage ELSE "Timed out")
            /\ UNCHANGED <<pathIdx, workers>>
         \/ /\ \A i \in batch : workers[i].promise # "rejected"
            /\ BatchFulfilled(batch)
            /\ RenderFrom(pathIdx + 1, ValueOf(result.browserResult),
                          ValueOf(result.serverResult), ValueOf(numProcesses))
  /\ UNCHANGED <<logged, routes, optNumProcesses, browserRun, serverRun, buildsAll, stopsAll,
                 schedResult, cpus, numProcesses>>

\* _renderUniversal, lines 172-181: Promise.all over the current batch has settled.
\* A rejection leaves _renderUniversal and execute as an exception; otherwise the
\* loop goes on with the next output path
WorkersAwaited ==
  /\ execPc = "awaitWorkers"
  /\ LET batch == WorkersOf(pathIdx)
         result == ValueOf(schedResult)
     IN  \/ /\ \E i \in batch : workers[i].promise = "rejected"
            /\ execPc' = "done"
            /\ execOutcome' = Threw(WorkerErrorMessage)
            /\ UNCHANGED <<pathIdx, workers>>
         \/ /\ \A i \in batch : workers[i].promise # "rejected"
            /\ BatchFulfilled(batch)
            /\ RenderFrom(pathIdx + 1, ValueOf(result.browserResult),
                          ValueOf(result.serverResult), ValueOf(numProcesses))
  /\ UNCHANGED <<logged, routes, optNumProcesses, browserRun, serverRun, buildsAll, stopsAll,
                 schedResult, cpus, numProcesses>>

Next ==
  \/ Start
  \/ BrowserScheduled
  \/ ServerScheduled
  \/ BrowserBuildSettles
  \/ ServerBuildSettles
  \/ BuildsAwaited
  \/ BrowserStopSettles
  \/ ServerStopSettles
  \/ StopsAwaited
  \/ \E i \in 1..Len(workers) : WorkerExits(i)
  \/ \E i \in 1..Len(workers) : WorkerErrors(i)
  \/ \E i \in 1..Len(workers) : WorkerReports(i)
  \/ WorkersAwaited

Spec == Init /\ [][Next]_vars

\* The continuations of execute run as soon as the promise they await has settled:
\* the event loop never leaves a ready continuation waiting for ever. Nothing is
\* assumed of the builds, the stop calls and the worker processes.
FairSpec ==
  /\ Spec
  /\ WF_vars(Start)
  /\ WF_vars(BuildsAwaited)
  /\ WF_vars(StopsAwaited)
  /\ WF_vars(WorkersAwaited)

\* ---- properties ----

\* _scheduleBuilds has been entered and has finished, by returning or by throwing
SchedulerFinished ==
  /\ browserRun.sched # "idle"
  /\ execPc \in {"awaitWorkers", "done"}

BothBuildsResolved ==
  browserRun.result.st = "fulfilled" /\ serverRun.result.st = "fulfilled"

\* C1: when the Build Scheduler finishes, stop has been invoked exactly once on
\* every build handle it obtained, whatever the builds and the scheduling did.
C1_StopOncePerHandle ==
  SchedulerFinished =>
    /\ browserRun.sched = "running" => browserRun.stopCalls = 1
    /\ serverRun.sched = "running" => serverRun.stopCalls = 1

\* the success the scheduler owes to the two resolved builds
ExpectedSuccess ==
  /\ browserRun.result.val.success
  /\ serverRun.result.val.success
  /\ browserRun.result.val.baseOutputPath # Undefined

\* C2: once both builds have resolved, the scheduler's success flag is true exactly
\* when both builds succeeded and the browser baseOutputPath is defined, execute
\* returns a success exactly in that case, and when it is not the case and the
\* handles were released execute returns success=false.
C2_SuccessNeedsBothAndBasePath ==
  (buildsAll.st = "fulfilled" /\ IsDefined(schedResult)) =>
    /\ ValueOf(schedResult).success = ExpectedSuccess
    /\ execOutcome.kind = "returned" => execOutcome.value.success = ExpectedSuccess
    /\ (execPc = "done" /\ ~ExpectedSuccess /\ stopsAll.st = "fulfilled") =>
         (execOutcome.kind = "returned" /\ execOutcome.value.success = FALSE)

C2_Witness ==
  /\ execPc = "done"
  /\ BothBuildsResolved
  /\ browserRun.result.val.success
  /\ serverRun.result.val.success
  /\ browserRun.result.val.baseOutputPath = Undefined
  /\ execOutcome.kind = "returned"
  /\ execOutcome.value.success = FALSE

\* the build stage failed: a build reported success=false (or no base path), or
\* awaiting the builds threw
BuildStageFailed ==
  \/ buildsAll.st = "rejected"
  \/ buildsAll.st = "fulfilled" /\ ~ExpectedSuccess

C4_BuildBarrier ==
  workers # << >> => BothBuildsResolved

C4_Witness ==
  /\ workers # << >>
  /\ \E i \in 1..Len(workers) : workers[i].proc = "running"
  /\ BothBuildsResolved

\* the routes handed to the workers of output path k, in fork order
RECURSIVE RoutesFrom(_, _)
RoutesFrom(i, outputPath) ==
  IF i > Len(workers) THEN << >>
  ELSE (IF workers[i].outputPath = outputPath THEN workers[i].routes ELSE << >>)
         \o RoutesFrom(i + 1, outputPath)

DispatchedRoutes(k) ==
  RoutesFrom(1, browserRun.result.val.outputPaths[k])

\* C5: for every output path the dispatcher has processed, the route arguments of
\* its workers, taken in fork order, are the route list: every position of the list
\* is passed to exactly one worker exactly once.
C5_EveryRouteDispatchedOnce ==
  execPc = "awaitWorkers" => \A k \in 1..pathIdx : DispatchedRoutes(k) = routes

\* C6: output-path iterations never overlap (a worker of a later output path exists
\* only when every worker of an earlier one has exited), and the batch of one output
\* path is forked in the single step that starts awaiting it: none is added while
\* the batch is awaited.
C6_BatchesSequential ==
  /\ [](\A i, j \in 1..Len(workers) :
          (i < j /\ workers[i].outputPath # workers[j].outputPath)
            => workers[i].proc = "exited")
  /\ [][(Len(workers') # Len(workers))
          => (execPc = "awaitWorkers"
                => \A i \in WorkersOf(pathIdx) : workers[i].proc = "exited")
             /\ execPc' = "awaitWorkers"
             /\ \A i \in (Len(workers) + 1)..Len(workers') :
                  /\ workers'[i].proc = "running"
                  /\ workers'[i].outputPath = workers'[Len(workers')].outputPath]_vars

C6_Witness ==
  /\ execPc = "awaitWorkers"
  /\ pathIdx = 2
  /\ \E i, j \in WorkersOf(2) :
       i # j /\ workers[i].proc = "running" /\ workers[j].proc = "running"
  /\ \A i \in WorkersOf(1) : workers[i].proc = "exited"
  /\ Cardinality(WorkersOf(1)) >= 2

\* C7: whenever execute has completed, by returning or by throwing, no render
\* worker it forked is still running (stated for the workers that did not emit
\* 'error' themselves: they are processes that did start).
C7_NoWorkerOutlivesExecute ==
  execPc = "done" =>
    \A i \in 1..Len(workers) :
      workers[i].promise # "rejected" => workers[i].proc # "running"

\* C8: with an empty route list execute throws 'No routes found.' and neither
\* target is ever scheduled nor any worker forked.
C8_EmptyRoutesFailBeforeBuilds ==
  routes = << >> =>
    /\ browserRun.sched = "idle"
    /\ serverRun.sched = "idle"
    /\ workers = << >>
    /\ \/ execPc = "start" /\ execOutcome = NotCompleted
       \/ execPc = "done" /\ execOutcome = Threw("No routes found.")

C8_Witness ==
  /\ routes = << >>
  /\ execPc = "done"
  /\ execOutcome.kind = "threw"
  /\ execOutcome.message = "No routes found."

\* C9: the effective worker count is at least 1 for every non-empty route list,
\* every number of processing units and every numProcesses option.
C9_WorkerCountAtLeastOne ==
  IsDefined(numProcesses) => ValueOf(numProcesses) >= 1

\* C10: the effective worker count never exceeds the number of routes; without an
\* override it is min(units - 1, number of routes), and 8 units with 3 routes give 3.
C10_WorkerCountCappedByRoutes ==
  /\ EffectiveNumProcesses(Undefined, 8, 3) = 3
  /\ IsDefined(numProcesses) =>
       /\ ValueOf(numProcesses) <= Len(routes)
       /\ optNumProcesses = Undefined =>
            ValueOf(numProcesses) = (IF cpus - 1 <= Len(routes) THEN cpus - 1
                                     ELSE Len(routes))

C10_Witness ==
  /\ IsDefined(numProcesses)
  /\ optNumProcesses = Undefined
  /\ cpus - 1 > Len(routes)
  /\ ValueOf(numProcesses) = Len(routes)

\* the server bundle the dispatcher must resolve for output path k: the locale
\* directory of the output path under the server base, then main.js
ExpectedBundlePath(k) ==
  LET outputPath == browserRun.result.val.outputPaths[k]
      serverBase == serverRun.result.val.baseOutputPath
  IN  (IF serverBase = Undefined THEN << >> ELSE serverBase[1])
        \o SubSeq(outputPath, Len(BrowserBase) + 1, Len(outputPath))
        \o <<"main.js">>

MissingBundleThrown ==
  execOutcome.kind = "threw" /\ execOutcome.message = "Could not find the main bundle"

\* C11: a worker is forked only with a server bundle that exists, resolved as
\* <server base>/<locale directory>/main.js; when the bundle of an output path is
\* missing execute has thrown the missing-bundle error naming that path, and no
\* worker exists for that output path or a later one.
C11_MissingBundleAborts ==
  /\ \A i \in 1..Len(workers) : workers[i].bundleOnDisk
  /\ execPc = "awaitWorkers" =>
       \A i \in WorkersOf(pathIdx) :
         workers[i].serverBundlePath = ExpectedBundlePath(pathIdx)
  /\ MissingBundleThrown =>
       /\ execPc = "done"
       /\ execOutcome.detail = ExpectedBundlePath(pathIdx)
       /\ \A i \in 1..Len(workers) :
            \E k \in 1..(pathIdx - 1) :
              workers[i].outputPath = browserRun.result.val.outputPaths[k]

C11_Witness ==
  /\ MissingBundleThrown
  /\ pathIdx = 2
  /\ execOutcome.detail = <<"dist", "server", "fr", "main.js">>
  /\ workers # << >>

\* C12: a failure report is only logged: the step that logs it changes no worker,
\* no suspension point and no outcome, and whenever execute returns after rendering
\* it returns the successful browser build result, whatever was logged.
C12_FailureReportOnlyLogged ==
  /\ [][(ErrorLines \subseteq logged' /\ ~(ErrorLines \subseteq logged))
          => /\ logged' = logged \cup ErrorLines
             /\ UNCHANGED <<workers, execPc, execOutcome, pathIdx, schedResult>>]_vars
  /\ []((execOutcome.kind = "returned" /\ workers # << >>)
          => /\ execOutcome.value = browserRun.result.val
             /\ execOutcome.value.success)

C12_Witness ==
  /\ ErrorLines \subseteq logged
  /\ execPc = "done"
  /\ execOutcome.kind = "returned"
  /\ execOutcome.value.success
  /\ pathIdx = 3
  /\ Cardinality(WorkersOf(1)) >= 2
  /\ Cardinality(WorkersOf(2)) >= 2

\* an exception was raised while scheduling a target or while awaiting the builds
SchedulingOrAwaitingThrew ==
  \/ browserRun.sched = "failed"
  \/ serverRun.sched = "failed"
  \/ buildsAll.st = "rejected"

\* C13: an exception raised while scheduling either target or while awaiting either
\* build never reaches the caller of execute: execute returns the failure result
\* {success: false, error: <message>}.
C13_ExceptionsBecomeFailureResult ==
  (execPc = "done" /\ SchedulingOrAwaitingThrew) =>
    /\ execOutcome.kind = "returned"
    /\ execOutcome.value.success = FALSE
    /\ execOutcome.value.error \in {Some(ScheduleRejectMessage),
                                    Some(BrowserRejectMessage),
                                    Some(ServerRejectMessage)}

RECURSIVE Flatten(_)
Flatten(groups) ==
  IF Len(groups) = 0 THEN << >> ELSE Head(groups) \o Flatten(Tail(groups))

\* groups is a partition of list into count contiguous groups of balanced size
BalancedPartition(groups, list, count) ==
  /\ Len(groups) = count
  /\ Flatten(groups) = list
  /\ \A i \in 1..Len(groups) :
       \/ Len(groups[i]) = Len(list) \div count
       \/ Len(groups[i]) = (Len(list) + count - 1) \div count
  /\ \A i, j \in 1..Len(groups) :
       Len(groups[i]) - Len(groups[j]) \in {-1, 0, 1}

\* the route groups handed to the workers of output path k, in fork order
RECURSIVE GroupsFrom(_, _)
GroupsFrom(i, outputPath) ==
  IF i > Len(workers) THEN << >>
  ELSE (IF workers[i].outputPath = outputPath THEN <<workers[i].routes>> ELSE << >>)
         \o GroupsFrom(i + 1, outputPath)

DispatchedGroups(k) ==
  GroupsFrom(1, browserRun.result.val.outputPaths[k])

GroupArrayBalanced ==
  \A len \in 1..MaxGroupLen : \A count \in 1..len :
    BalancedPartition(groupArray([i \in 1..len |-> i], count), [i \in 1..len |-> i], count)

RECURSIVE NonEmptyCount(_)
NonEmptyCount(groups) ==
  IF Len(groups) = 0 THEN 0
  ELSE (IF Len(Head(groups)) > 0 THEN 1 ELSE 0) + NonEmptyCount(Tail(groups))

ExpectedError ==
  LET browserError == browserRun.result.val.error
  IN  IF browserError # Undefined /\ browserError # Some("") THEN browserError
      ELSE serverRun.result.val.error

\* C16: once both builds have resolved, the error of the scheduler's result is the
\* browser error if non-empty and the server error otherwise, in every order in
\* which the builds finish; a failure result returned by execute carries it.
C16_BrowserErrorTakesPrecedence ==
  (buildsAll.st = "fulfilled" /\ IsDefined(schedResult)) =>
    /\ ValueOf(schedResult).error = ExpectedError
    /\ (execOutcome.kind = "returned" /\ ~execOutcome.value.success) =>
         execOutcome.value.error = ExpectedError

C16_Witness ==
  /\ execPc = "done"
  /\ BothBuildsResolved
  /\ browserRun.result.val.error = Some(BrowserBuildError)
  /\ serverRun.result.val.error = Some(ServerBuildError)
  /\ execOutcome.kind = "returned"
  /\ execOutcome.value.error = Some(BrowserBuildError)

\* C17: when rendering has completed for all output paths, execute returns the
\* browser build result it was given: success, baseOutputPath, outputPaths and
\* outputPath are those of the browser build, whatever the workers reported.
C17_RenderReturnsBrowserResult ==
  (execOutcome.kind = "returned" /\ pathIdx > 0) =>
    LET given == browserRun.result.val
    IN  /\ execOutcome.value.success = given.success
        /\ execOutcome.value.baseOutputPath = given.baseOutputPath
        /\ execOutcome.value.outputPaths = given.outputPaths
        /\ execOutcome.value.outputPath = given.outputPath
        /\ execOutcome.value = given

C17_Witness ==
  /\ execOutcome.kind = "returned"
  /\ pathIdx = 3
  /\ Len(execOutcome.value.outputPaths) = 2
  /\ logged = InfoLines \cup ErrorLines
  /\ \A i \in 1..Len(workers) : workers[i].proc = "exited"
  /\ Len(workers) >= 2

\* a build that was scheduled and whose result is still awaited
BuildUnresolved(run) == run.sched = "running" /\ run.result.st = "pending"

AllWorkersExited == \A i \in 1..Len(workers) : workers[i].proc = "exited"

\* C18 as stated (safety half): execute does not complete while a build is
\* unresolved or while a worker has neither exited nor errored.
C18_NeverCompletesBeforeAllSettle ==
  execPc = "done" =>
    /\ ~BuildUnresolved(browserRun)
    /\ ~BuildUnresolved(serverRun)
    /\ \A i \in 1..Len(workers) :
         workers[i].proc = "exited" \/ workers[i].errorEmitted

\* what execute waits for: it completes only without routes, after a rejected
\* scheduling call, or once the builds' Promise.all and the stops' Promise.all have
\* settled and, if workers were forked, one of them errored or all of them exited
C18_CompletesOnlyOnSettlement ==
  execPc = "done" =>
    \/ routes = << >>
    \/ browserRun.sched = "failed"
    \/ serverRun.sched = "failed"
    \/ /\ buildsAll.st # "pending"
       /\ BothBuildsResolved \/ browserRun.result.st = "rejected"
                             \/ serverRun.result.st = "rejected"
       /\ stopsAll.st # "pending"
       /\ stopsAll.st = "fulfilled" =>
            browserRun.stop.st = "fulfilled" /\ serverRun.stop.st = "fulfilled"
       /\ AllWorkersExited \/ \E i \in 1..Len(workers) : workers[i].errorEmitted

\* C18: there is no timeout or cancellation. execute completes only when what it
\* awaits has settled: both builds resolved or one of them rejected, the stop calls
\* settled, and every forked worker exited or one of them errored (a sibling that
\* rejected or errored ends the wait although the other is still pending). And if
\* both builds resolve, both stop calls resolve and every spawned worker eventually
\* exits (a settled promise and an exited process stay so: from some point on all of
\* this holds for good), then execute eventually completes.
C18_NoTimeoutAndTermination ==
  /\ []C18_CompletesOnlyOnSettlement
  /\ <>[](/\ BothBuildsResolved
          /\ browserRun.stop.st = "fulfilled" /\ serverRun.stop.st = "fulfilled"
          /\ AllWorkersExited)
       => <>(execPc = "done")

C18_Witness ==
  /\ execPc = "done"
  /\ browserRun.result.st = "rejected"
  /\ BuildUnresolved(serverRun)
  /\ stopsAll.st = "fulfilled"
  /\ execOutcome.kind = "returned"

StopRejected == browserRun.stop.st = "rejected" \/ serverRun.stop.st = "rejected"

\* C19 as stated: although a stop call rejects, the scheduler hands the result it
\* computed from the two builds to execute, which returns it or renders from it.
C19_StopFailureKeepsResult ==
  (execPc = "done" /\ StopRejected) =>
    /\ execOutcome.kind = "returned"
    /\ execOutcome.value.success = ValueOf(schedResult).success

\* C19: releasing the handles is attempted on both, whatever the other does: both
\* stop calls are invoked before either settles. A stop call that rejects is not
\* handled: the rejection of the stops' Promise.all replaces the result computed
\* from the two builds, execute throws the first stop rejection and renders nothing.
C19_StopFailurePropagates ==
  /\ browserRun.stopCalls = serverRun.stopCalls
  /\ StopRejected =>
       /\ browserRun.stopCalls = 1 /\ serverRun.stopCalls = 1
       /\ IsDefined(schedResult)
       /\ stopsAll.st = "rejected"
       /\ stopsAll.msg \in {BrowserStopMessage, ServerStopMessage}
       /\ workers = << >>
       /\ execPc \in {"awaitStops", "done"}
       /\ execPc = "done" => execOutcome = Threw(stopsAll.msg)

C19_Witness ==
  /\ execPc = "done"
  /\ browserRun.stop.st = "rejected"
  /\ serverRun.stop.st = "fulfilled"
  /\ ValueOf(schedResult).success
  /\ execOutcome = Threw(BrowserStopMessage)

\* C20: a worker's 'error' event is fatal to the run: it rejects that worker's
\* promise, execute can only end by throwing the error, and from then on no further
\* worker is forked, for this output path or a later one.
C20_WorkerErrorIsFatal ==
  /\ [](\A i \in 1..Len(workers) :
          workers[i].errorEmitted =>
            /\ workers[i].promise = "rejected"
            /\ execPc \in {"awaitWorkers", "done"}
            /\ execPc = "done" => execOutcome = Threw(WorkerErrorMessage))
  /\ [][(\E i \in 1..Len(workers) : workers[i].errorEmitted) =>
          /\ Len(workers') = Len(workers)
          /\ pathIdx' = pathIdx]_vars

C20_Witness ==
  /\ execPc = "done"
  /\ execOutcome = Threw(WorkerErrorMessage)
  /\ pathIdx = 1
  /\ Len(ValueOf(ValueOf(schedResult).browserResult).outputPaths) = 2
  /\ \E i \in 1..Len(workers) : workers[i].errorEmitted
  /\ \A i \in 1..Len(workers) : workers[i].outputPath = Append(BrowserBase, Locales[1])

====
